---- MODULE Spec2Model ----
(***************************************************************************)
(* Alarm clock on wheels (alarm_clock_on_wheels.ino): the four interrupt   *)
(* handlers, the polling loop() and the millisecond clock, as a state      *)
(* machine.  Handlers run to completion (AVR clears the global interrupt   *)
(* flag on ISR entry), so each handler is one action; loop() is cut at     *)
(* every read or write of a variable that a handler shares with it, so a   *)
(* handler can run between any two of its steps.                           *)
(***************************************************************************)
EXTENDS Integers, Naturals, Sequences, FiniteSets, TLC

\* ---- program constants (#define lines 8-27) ----
INITIAL_STATE == 0
SETTING_ALARM == 1
ALARM_SET == 2
ALARM_RINGING == 3
MINIMUM_TIME_BETWEEN_BUTTON_PRESSES_MILLIS == 200
NUMBER_OF_SECONDS_IN_A_MINUTE == 60
DEFAULT_SNOOZE_TIME_MINUTES == 3
BUZZING_TIME_MILLIS == 3500

\* seconds added by one Timer1 compare interrupt (line 56)
TICK_SECONDS == 2

\* unsigned int on the ATmega328P is 16 bits wide: arithmetic is mod 2^16
UINT_MODULUS == 65536

\* ---- bounds of the model ----
\* Spec: ticks are taken while seconds_passed is below MaxSeconds, the
\* increase button is pressed in SettingAlarm while the minutes are below
\* MaxMinutes, and the clock stops at MaxNow, moving in debounce-window
\* steps for MaxFine ms at the start of each motion window
MaxSeconds == 3
MaxMinutes == 2
MaxNow == 3900
MaxFine == 400
\* SpecDelay: the same for ticks and minutes, and the clock stops at MaxNowH
MaxSecondsH == 130
MaxMinutesH == 2
MaxNowH == 400
\* SpecDebounce: the same
MaxSecondsD == 2
MaxMinutesD == 2
MaxNowD == 500
\* SpecLive: the same for ticks and minutes, and the clock stops at MaxNowL
MaxSecondsL == 3
MaxMinutesL == 1
MaxNowL == 10500

\* SpecWrap: the run starts at most MaxLead ticks before seconds_passed
\* wraps, ticks are taken until it has wrapped and reached MaxSecondsW, and
\* the clock is followed for MaxNowW ms
MaxLead == 3
MaxSecondsW == 62
MaxMinutesW == 1
MaxNowW == 200

Buttons == {"blue", "red", "yellow"}

VARIABLES
  state,                       \* line 50
  changed_state,               \* line 51
  force_lcd_clear,             \* line 52
  seconds_passed,              \* line 44
  seconds_for_alarm_start,     \* line 45
  number_of_minutes_selected,  \* line 46
  last_yellow_button_push,     \* line 30
  last_red_button_push,        \* line 31
  last_blue_button_push,       \* line 32
  current_direction_start,     \* line 47
  direction,                   \* line 48
  now,                         \* the value millis() returns
  pc,                          \* the position of loop()
  motor,                       \* the last command given to the motor driver
  buzzer,                      \* TRUE while tone() is sounding
  ev,                          \* history: the step taken last
  armed,                       \* history: how and when ALARM_SET was entered last
  net_presses,                 \* history: increases less decreases since SETTING_ALARM was entered
  ring_init,                   \* history: loop() has done the entry action of this ringing
  raw,                         \* history: the raw edges of each button in the last debounce window
  preempted,                   \* history: where loop() was when a handler ran during this pass
  after_ring                   \* history: what loop() has done with the motor since the state left ALARM_RINGING

vars == <<state, changed_state, force_lcd_clear, seconds_passed,
          seconds_for_alarm_start, number_of_minutes_selected,
          last_yellow_button_push, last_red_button_push, last_blue_button_push,
          current_direction_start, direction, now, pc, motor, buzzer,
          ev, armed, net_presses, ring_init, raw, preempted, after_ring>>

\* the variables of the program that the handlers and loop() share
shared == <<state, changed_state, force_lcd_clear, seconds_passed,
            seconds_for_alarm_start, number_of_minutes_selected,
            last_yellow_button_push, last_red_button_push, last_blue_button_push,
            current_direction_start, direction>>

loopVars == <<current_direction_start, direction, pc, motor, buzzer>>

\* the fields a handler body works on
Fields == [state |-> state, changed |-> changed_state, force |-> force_lcd_clear,
           sec |-> seconds_passed, target |-> seconds_for_alarm_start,
           minutes |-> number_of_minutes_selected]

\* a handler's writes, and what the history variables record of them
Store(v) ==
  /\ state' = v.state
  /\ changed_state' = v.changed
  /\ force_lcd_clear' = v.force
  /\ seconds_passed' = v.sec
  /\ seconds_for_alarm_start' = v.target
  /\ number_of_minutes_selected' = v.minutes

\* the history of a handler step: which handler ran, on which state and
\* minutes, and whether its debounce gate let the edge through
Event(k, a) == [kind |-> k, accepted |-> a, from |-> state,
                m |-> number_of_minutes_selected]
\* the history of a step of loop() or of the clock
Quiet(k) == [kind |-> k, accepted |-> FALSE, from |-> 0, m |-> 0]

\* what a handler step that runs body k and leaves the fields v adds to the
\* history.  preempted is "none" from the start of a pass of loop() until a
\* handler runs, then "other", or the position of loop() at the last handler
\* step that changed the state.  after_ring is "ringing" from the step into
\* ALARM_RINGING, "left" from the step out of it, then "moved" once loop()
\* has commanded a motion, "stopped" once it has commanded the stop, and
\* "undone" when the stop came after such a motion
Record(k, v) ==
  /\ ev' = Event(k, TRUE)
  /\ armed' = IF v.state = ALARM_SET /\ state # ALARM_SET
                THEN [by |-> k, at |-> seconds_passed]
                ELSE armed
  /\ net_presses' =
       IF state = INITIAL_STATE /\ v.state = SETTING_ALARM THEN 0
       ELSE IF state = SETTING_ALARM /\ k = "yellow" THEN net_presses + 1
       ELSE IF state = SETTING_ALARM /\ k = "red" /\ number_of_minutes_selected > 0
         THEN net_presses - 1
       ELSE net_presses
  /\ ring_init' = IF v.state = ALARM_RINGING /\ state # ALARM_RINGING
                    THEN FALSE ELSE ring_init
  /\ preempted' = IF v.state # state THEN pc
                  ELSE IF preempted = "none" THEN "other" ELSE preempted
  /\ after_ring' = IF v.state = ALARM_RINGING /\ state # ALARM_RINGING THEN "ringing"
                   ELSE IF v.state # ALARM_RINGING /\ state = ALARM_RINGING THEN "left"
                   ELSE after_ring

\* a handler step whose edge is dropped
Dropped(k) ==
  /\ ev' = Event(k, FALSE)
  /\ preempted' = IF preempted = "none" THEN "other" ELSE preempted
  /\ UNCHANGED <<state, changed_state, force_lcd_clear, seconds_passed,
                 seconds_for_alarm_start, number_of_minutes_selected,
                 armed, net_presses, ring_init, after_ring>>

Init ==
  /\ state = INITIAL_STATE
  /\ changed_state = FALSE
  /\ force_lcd_clear = FALSE
  /\ seconds_passed = 0
  /\ seconds_for_alarm_start = 0
  /\ number_of_minutes_selected = 0
  /\ last_yellow_button_push = 0
  /\ last_red_button_push = 0
  /\ last_blue_button_push = 0
  /\ current_direction_start = 0
  /\ direction = FALSE
  /\ now = 0
  /\ pc = "top"
  /\ motor = "stop"
  /\ buzzer = FALSE
  /\ ev = Quiet("boot")
  /\ armed = [by |-> "none", at |-> 0]
  /\ net_presses = 0
  /\ ring_init = FALSE
  /\ raw = [b \in Buttons |-> {}]
  /\ preempted = "boot"
  /\ after_ring = "none"

\* ---- Timer1 compare interrupt, lines 55-61 ----
\* mutant: the test of state is left out of line 57
TimerBody_NoStateTest(v) ==
  LET a == [v EXCEPT !.sec = (@ + TICK_SECONDS) % UINT_MODULUS]
  IN IF a.sec >= a.target
       THEN [a EXCEPT !.state = @ + 1, !.changed = TRUE]
       ELSE a

\* mutant: > for >= in line 57
TimerBody_Late(v) ==
  LET a == [v EXCEPT !.sec = (@ + TICK_SECONDS) % UINT_MODULUS]
  IN IF a.sec > a.target /\ a.state = ALARM_SET
       THEN [a EXCEPT !.state = @ + 1, !.changed = TRUE]
       ELSE a

\* mutant: line 59 is left out, the tick changes the state without the flag
TimerBody_NoFlag(v) ==
  LET a == [v EXCEPT !.sec = (@ + TICK_SECONDS) % UINT_MODULUS]
  IN IF a.sec >= a.target /\ a.state = ALARM_SET
       THEN [a EXCEPT !.state = @ + 1]
       ELSE a

TimerBody(v) ==
  LET a == [v EXCEPT !.sec = (@ + TICK_SECONDS) % UINT_MODULUS]
  IN IF a.sec >= a.target /\ a.state = ALARM_SET
       THEN [a EXCEPT !.state = @ + 1, !.changed = TRUE]
       ELSE a

TIMER1_COMPA_vect ==
  /\ Store(TimerBody(Fields))
  /\ Record("tick", TimerBody(Fields))
  /\ UNCHANGED <<last_yellow_button_push, last_red_button_push,
                 last_blue_button_push, now, loopVars>>

\* ---- the debounce test of lines 66, 81 and 104 ----
\* mutant: > for >=
DebounceAccepts_Strict(current_time, last_push) ==
  current_time - last_push > MINIMUM_TIME_BETWEEN_BUTTON_PRESSES_MILLIS

\* mutant: the time since boot is tested, not the time since the last push
DebounceAccepts_SinceBoot(current_time, last_push) ==
  current_time >= MINIMUM_TIME_BETWEEN_BUTTON_PRESSES_MILLIS

DebounceAccepts(current_time, last_push) ==
  current_time - last_push >= MINIMUM_TIME_BETWEEN_BUTTON_PRESSES_MILLIS

\* ---- blue button (confirm), lines 64-76 ----
\* mutant: the minutes are added as seconds in line 73
BlueBody_MinutesAsSeconds(v) ==
  IF v.state = SETTING_ALARM
    THEN [v EXCEPT !.state = @ + 1, !.changed = TRUE,
                   !.target = (v.sec + v.minutes) % UINT_MODULUS]
    ELSE v

\* mutant: the handler ends after line 72, before the target is written
BlueBody_StaleTarget(v) ==
  IF v.state = SETTING_ALARM
    THEN [v EXCEPT !.state = @ + 1, !.changed = TRUE]
    ELSE v

BlueBody(v) ==
  IF v.state = SETTING_ALARM
    THEN [v EXCEPT !.state = @ + 1, !.changed = TRUE,
                   !.target = (v.sec + NUMBER_OF_SECONDS_IN_A_MINUTE * v.minutes)
                                % UINT_MODULUS]
    ELSE v

INT0_vect ==
  LET current_time == now
  IN /\ IF DebounceAccepts(current_time, last_blue_button_push)
          THEN /\ last_blue_button_push' = current_time
               /\ Store(BlueBody(Fields))
               /\ Record("blue", BlueBody(Fields))
          ELSE /\ UNCHANGED last_blue_button_push
               /\ Dropped("blue")
     /\ UNCHANGED <<last_yellow_button_push, last_red_button_push, now, loopVars>>

\* ---- red button (decrease / stop), lines 79-97 ----
\* mutant: the guard number_of_minutes_selected > 0 is left out of line 85
RedBody_NoFloor(v) ==
  LET a == IF v.state = SETTING_ALARM
             THEN LET m == (v.minutes - 1) % UINT_MODULUS
                  IN [v EXCEPT !.minutes = m,
                               !.force = IF m = 9 \/ m = 99 THEN TRUE ELSE @]
             ELSE v
  IN IF a.state = ALARM_RINGING
       THEN [a EXCEPT !.state = INITIAL_STATE, !.changed = TRUE]
       ELSE a

\* mutant: the stop of line 92 also acts on an armed alarm
RedBody_CancelArmed(v) ==
  LET a == IF v.state = SETTING_ALARM /\ v.minutes > 0
             THEN LET m == v.minutes - 1
                  IN [v EXCEPT !.minutes = m,
                               !.force = IF m = 9 \/ m = 99 THEN TRUE ELSE @]
             ELSE v
  IN IF a.state = ALARM_RINGING \/ a.state = ALARM_SET
       THEN [a EXCEPT !.state = INITIAL_STATE, !.changed = TRUE]
       ELSE a

RedBody(v) ==
  LET a == IF v.state = SETTING_ALARM /\ v.minutes > 0
             THEN LET m == v.minutes - 1
                  IN [v EXCEPT !.minutes = m,
                               !.force = IF m = 9 \/ m = 99 THEN TRUE ELSE @]
             ELSE v
  IN IF a.state = ALARM_RINGING
       THEN [a EXCEPT !.state = INITIAL_STATE, !.changed = TRUE]
       ELSE a

INT1_vect ==
  LET current_time == now
  IN /\ IF DebounceAccepts(current_time, last_red_button_push)
          THEN /\ last_red_button_push' = current_time
               /\ Store(RedBody(Fields))
               /\ Record("red", RedBody(Fields))
          ELSE /\ UNCHANGED last_red_button_push
               /\ Dropped("red")
     /\ UNCHANGED <<last_yellow_button_push, last_blue_button_push, now, loopVars>>

\* ---- yellow button (increase / snooze), lines 100-127 ----
\* the three ifs of lines 108, 113 and 120 run one after the other, each on
\* the state the one before it left
\* mutant: the snooze is the 5 minutes of the comment in line 119
YellowBody_FiveMinutes(v) ==
  LET a == IF v.state = SETTING_ALARM
             THEN [v EXCEPT !.minutes = (@ + 1) % UINT_MODULUS]
             ELSE v
      b == IF a.state = INITIAL_STATE
             THEN [a EXCEPT !.state = @ + 1, !.changed = TRUE, !.minutes = 1]
             ELSE a
  IN IF b.state = ALARM_RINGING
       THEN [b EXCEPT !.state = ALARM_SET, !.changed = TRUE,
                      !.target = (b.sec + 5 * NUMBER_OF_SECONDS_IN_A_MINUTE)
                                   % UINT_MODULUS]
       ELSE b

\* mutant: the block of line 113 comes before the block of line 108, so
\* the press that enters SETTING_ALARM is counted as an increase too
YellowBody_EntryFirst(v) ==
  LET a == IF v.state = INITIAL_STATE
             THEN [v EXCEPT !.state = @ + 1, !.changed = TRUE, !.minutes = 1]
             ELSE v
      b == IF a.state = SETTING_ALARM
             THEN [a EXCEPT !.minutes = (@ + 1) % UINT_MODULUS]
             ELSE a
  IN IF b.state = ALARM_RINGING
       THEN [b EXCEPT !.state = ALARM_SET, !.changed = TRUE,
                      !.target = (b.sec + DEFAULT_SNOOZE_TIME_MINUTES
                                            * NUMBER_OF_SECONDS_IN_A_MINUTE)
                                   % UINT_MODULUS]
       ELSE b

YellowBody(v) ==
  LET a == IF v.state = SETTING_ALARM
             THEN [v EXCEPT !.minutes = (@ + 1) % UINT_MODULUS]
             ELSE v
      b == IF a.state = INITIAL_STATE
             THEN [a EXCEPT !.state = @ + 1, !.changed = TRUE, !.minutes = 1]
             ELSE a
  IN IF b.state = ALARM_RINGING
       THEN [b EXCEPT !.state = ALARM_SET, !.changed = TRUE,
                      !.target = (b.sec + DEFAULT_SNOOZE_TIME_MINUTES
                                            * NUMBER_OF_SECONDS_IN_A_MINUTE)
                                   % UINT_MODULUS]
       ELSE b

\* pd4 is bit PD4 of PIND as the handler reads it: the pin-change interrupt
\* fires on both edges and the handler acts only when the pin reads low
PCINT2_vect(pd4) ==
  LET current_time == now
  IN /\ IF pd4 = 0 /\ DebounceAccepts(current_time, last_yellow_button_push)
          THEN /\ last_yellow_button_push' = current_time
               /\ Store(YellowBody(Fields))
               /\ Record("yellow", YellowBody(Fields))
          ELSE /\ UNCHANGED last_yellow_button_push
               /\ Dropped(IF pd4 = 0 THEN "yellow" ELSE "yellow_high")
     /\ UNCHANGED <<last_red_button_push, last_blue_button_push, now, loopVars>>

\* ---- loop(), lines 262-315 ----
\* what every step of loop() leaves alone: the handlers' own variables and the clock
handlerVars == <<seconds_passed, seconds_for_alarm_start, number_of_minutes_selected,
                 last_yellow_button_push, last_red_button_push,
                 last_blue_button_push, now, armed, net_presses, raw>>

\* line 264: the test of changed_state
LoopTop ==
  /\ pc = "top"
  /\ pc' = IF changed_state THEN "clear" ELSE "dispatch"
  /\ ev' = Quiet("top")
  /\ preempted' = "none"
  /\ UNCHANGED after_ring
  /\ UNCHANGED <<state, changed_state, force_lcd_clear, current_direction_start,
                 direction, motor, buzzer, ring_init, handlerVars>>

\* mutant: lines 268-274 are left out, the flag is cleared and no entry
\* action follows
LoopClear_NoEntry ==
  /\ pc = "clear"
  /\ changed_state' = FALSE
  /\ pc' = "dispatch"
  /\ ev' = Quiet("clear")
  /\ UNCHANGED <<preempted, after_ring>>
  /\ UNCHANGED <<state, force_lcd_clear, current_direction_start,
                 direction, motor, buzzer, ring_init, handlerVars>>

\* lines 265-266: lcd.clear(); changed_state = false
LoopClear ==
  /\ pc = "clear"
  /\ changed_state' = FALSE
  /\ pc' = "entry"
  /\ ev' = Quiet("clear")
  /\ UNCHANGED <<preempted, after_ring>>
  /\ UNCHANGED <<state, force_lcd_clear, current_direction_start,
                 direction, motor, buzzer, ring_init, handlerVars>>

\* mutant: line 273 is left out, the motor is not stopped
LoopEntry_NoStop ==
  /\ pc = "entry"
  /\ IF state = ALARM_RINGING
       THEN /\ direction' = FALSE
            /\ current_direction_start' = now
            /\ pc' = "top"
            /\ ring_init' = TRUE
            /\ UNCHANGED motor
       ELSE /\ pc' = "dispatch"
            /\ UNCHANGED <<motor, direction, current_direction_start, ring_init>>
  /\ ev' = Quiet("entry")
  /\ UNCHANGED <<preempted, after_ring>>
  /\ UNCHANGED <<state, changed_state, force_lcd_clear, buzzer, handlerVars>>

\* lines 268-274: the entry action, chosen on the state read at line 268
LoopEntry ==
  /\ pc = "entry"
  /\ IF state = ALARM_RINGING
       THEN /\ direction' = FALSE
            /\ current_direction_start' = now
            /\ pc' = "top"
            /\ ring_init' = TRUE
            /\ UNCHANGED motor
       ELSE /\ motor' = "stop"
            /\ pc' = "dispatch"
            /\ UNCHANGED <<direction, current_direction_start, ring_init>>
  /\ after_ring' = IF state = ALARM_RINGING THEN after_ring
                   ELSE IF after_ring = "left" THEN "stopped"
                   ELSE IF after_ring = "moved" THEN "undone"
                   ELSE after_ring
  /\ ev' = Quiet("entry")
  /\ UNCHANGED preempted
  /\ UNCHANGED <<state, changed_state, force_lcd_clear, buzzer, handlerVars>>

\* line 279: the test of state that selects the ringing branch
LoopDispatch ==
  /\ pc = "dispatch"
  /\ pc' = IF state = ALARM_RINGING THEN "window" ELSE "date1"
  /\ ev' = Quiet("dispatch")
  /\ UNCHANGED <<preempted, after_ring>>
  /\ UNCHANGED <<state, changed_state, force_lcd_clear, current_direction_start,
                 direction, motor, buzzer, ring_init, handlerVars>>

\* the test of line 282
WindowExpired(current_time, window_start) ==
  current_time - window_start >= BUZZING_TIME_MILLIS

\* lines 280-282: print_during_alarm_ringing(); the test of the motion window
LoopWindow ==
  /\ pc = "window"
  /\ pc' = IF WindowExpired(now, current_direction_start) THEN "flip" ELSE "actuate"
  /\ ev' = Quiet("window")
  /\ UNCHANGED <<preempted, after_ring>>
  /\ UNCHANGED <<state, changed_state, force_lcd_clear, current_direction_start,
                 direction, motor, buzzer, ring_init, handlerVars>>

\* mutant: line 284 is left out, the window is not restarted
LoopFlip_NoRestart ==
  /\ pc = "flip"
  /\ direction' = ~direction
  /\ pc' = "top"
  /\ ev' = Quiet("flip")
  /\ UNCHANGED <<preempted, after_ring>>
  /\ UNCHANGED <<state, changed_state, force_lcd_clear, current_direction_start,
                 motor, buzzer, ring_init, handlerVars>>

\* lines 284-286: the window restarts at the second millis(), the direction
\* is flipped, and the pass ends
LoopFlip ==
  /\ pc = "flip"
  /\ current_direction_start' = now
  /\ direction' = ~direction
  /\ pc' = "top"
  /\ ev' = Quiet("flip")
  /\ UNCHANGED <<preempted, after_ring>>
  /\ UNCHANGED <<state, changed_state, force_lcd_clear, motor, buzzer,
                 ring_init, handlerVars>>

\* mutant: the motor calls of lines 291 and 294 change places
LoopActuate_Swapped ==
  /\ pc = "actuate"
  /\ IF direction
       THEN buzzer' = TRUE /\ motor' = "backward"
       ELSE buzzer' = FALSE /\ motor' = "forward"
  /\ pc' = "top"
  /\ after_ring' = IF after_ring = "left" THEN "moved" ELSE after_ring
  /\ ev' = Quiet("actuate")
  /\ UNCHANGED preempted
  /\ UNCHANGED <<state, changed_state, force_lcd_clear, current_direction_start,
                 direction, ring_init, handlerVars>>

\* lines 289-296: tone and forward, or silence and backward
LoopActuate ==
  /\ pc = "actuate"
  /\ IF direction
       THEN buzzer' = TRUE /\ motor' = "forward"
       ELSE buzzer' = FALSE /\ motor' = "backward"
  /\ pc' = "top"
  /\ after_ring' = IF after_ring = "left" THEN "moved" ELSE after_ring
  /\ ev' = Quiet("actuate")
  /\ UNCHANGED preempted
  /\ UNCHANGED <<state, changed_state, force_lcd_clear, current_direction_start,
                 direction, ring_init, handlerVars>>

\* line 300, left operand of ||: state == INITIAL_STATE
LoopDate1 ==
  /\ pc = "date1"
  /\ pc' = IF state = INITIAL_STATE THEN "date" ELSE "date2"
  /\ ev' = Quiet("date1")
  /\ UNCHANGED <<preempted, after_ring>>
  /\ UNCHANGED <<state, changed_state, force_lcd_clear, current_direction_start,
                 direction, motor, buzzer, ring_init, handlerVars>>

\* line 300, right operand of ||: a second read of the volatile state
LoopDate2 ==
  /\ pc = "date2"
  /\ pc' = IF state = ALARM_SET THEN "date" ELSE "setting"
  /\ ev' = Quiet("date2")
  /\ UNCHANGED <<preempted, after_ring>>
  /\ UNCHANGED <<state, changed_state, force_lcd_clear, current_direction_start,
                 direction, motor, buzzer, ring_init, handlerVars>>

\* lines 301-303: noTone(); print_date_and_time()
LoopDate ==
  /\ pc = "date"
  /\ buzzer' = FALSE
  /\ pc' = "top"
  /\ ev' = Quiet("date")
  /\ UNCHANGED <<preempted, after_ring>>
  /\ UNCHANGED <<state, changed_state, force_lcd_clear, current_direction_start,
                 direction, motor, ring_init, handlerVars>>

\* lines 307-314: the minutes prompt, with the forced clear
LoopSetting ==
  /\ pc = "setting"
  /\ force_lcd_clear' = IF state = SETTING_ALARM THEN FALSE ELSE force_lcd_clear
  /\ pc' = "top"
  /\ ev' = Quiet("setting")
  /\ UNCHANGED <<preempted, after_ring>>
  /\ UNCHANGED <<state, changed_state, current_direction_start,
                 direction, motor, buzzer, ring_init, handlerVars>>

Loop ==
  \/ LoopTop \/ LoopClear \/ LoopEntry \/ LoopDispatch \/ LoopWindow \/ LoopFlip
  \/ LoopActuate \/ LoopDate1 \/ LoopDate2 \/ LoopDate \/ LoopSetting

\* ---- the millisecond clock behind millis() ----
\* raw edges older than a debounce window leave the history
Recent(edges, t) ==
  {e \in edges : t - e.t < MINIMUM_TIME_BETWEEN_BUTTON_PRESSES_MILLIS}

Advance(d) ==
  /\ now' = now + d
  /\ ev' = Quiet("time")
  /\ raw' = [b \in Buttons |-> Recent(raw[b], now + d)]
  /\ UNCHANGED <<shared, pc, motor, buzzer, armed, net_presses, ring_init,
                 preempted, after_ring>>

\* ---- the history of raw edges ----
\* the edge that the step to ev' handled joins the history of its button
Logged ==
  raw' = IF ev'.kind \in Buttons
           THEN [raw EXCEPT ![ev'.kind] = @ \cup {[t |-> now, accepted |-> ev'.accepted]}]
           ELSE raw

\* ---- the handlers, with the bounds on their inputs ----
Tick(maxSec) == seconds_passed < maxSec /\ TIMER1_COMPA_vect

Blue == INT0_vect

Red == INT1_vect

Yellow(maxMin) ==
  \E pd4 \in {0, 1} :
    /\ (pd4 = 0 /\ state = SETTING_ALARM) => number_of_minutes_selected < maxMin
    /\ PCINT2_vect(pd4)

\* ---- the whole program: the handlers, loop() and the clock ----
\* the clock moves by a debounce window in the first `fine` ms of each
\* motion window, and by a motion window, up to maxNow
Clock(fine, maxNow) ==
  \/ /\ (now % BUZZING_TIME_MILLIS) + MINIMUM_TIME_BETWEEN_BUTTON_PRESSES_MILLIS <= fine
     /\ now + MINIMUM_TIME_BETWEEN_BUTTON_PRESSES_MILLIS <= maxNow
     /\ Advance(MINIMUM_TIME_BETWEEN_BUTTON_PRESSES_MILLIS)
  \/ /\ now + BUZZING_TIME_MILLIS <= maxNow
     /\ Advance(BUZZING_TIME_MILLIS)

Handlers(maxSec, maxMin) ==
  \/ Tick(maxSec)
  \/ Blue
  \/ Red
  \/ Yellow(maxMin)

Next ==
  \/ Handlers(MaxSeconds, MaxMinutes) /\ UNCHANGED raw
  \/ Loop
  \/ Clock(MaxFine, MaxNow)

Spec == Init /\ [][Next]_vars

\* ---- the interrupt layer: the handlers and the clock, loop() not running ----
HalfWindow == MINIMUM_TIME_BETWEEN_BUTTON_PRESSES_MILLIS \div 2

\* the clock moves by a step of `steps` up to maxNow
ClockTo(steps, maxNow) ==
  \E d \in steps : now + d <= maxNow /\ Advance(d)

\* the debounce gates: few ticks, the clock in half debounce windows, and
\* every raw edge kept in the history
NextDebounce ==
  \/ Handlers(MaxSecondsD, MaxMinutesD) /\ Logged
  \/ ClockTo({HalfWindow, 2 * HalfWindow}, MaxNowD)

SpecDebounce == Init /\ [][NextDebounce]_vars

\* the alarm's delay: many ticks, the clock in debounce windows
NextDelay ==
  \/ Handlers(MaxSecondsH, MaxMinutesH) /\ UNCHANGED raw
  \/ ClockTo({2 * HalfWindow}, MaxNowH)

SpecDelay == Init /\ [][NextDelay]_vars

\* the same under a fair tick source: Timer1 keeps interrupting
TickDelay == Tick(MaxSecondsH) /\ UNCHANGED raw

SpecRing == Init /\ [][NextDelay]_vars /\ WF_vars(TickDelay)

\* ---- the whole program under fair scheduling: loop() keeps making
\* passes and the clock keeps running, one motion window at a time ----
ClockLive == ClockTo({BUZZING_TIME_MILLIS}, MaxNowL)

NextLive ==
  \/ Handlers(MaxSecondsL, MaxMinutesL) /\ UNCHANGED raw
  \/ Loop
  \/ ClockLive

SpecLive == Init /\ [][NextLive]_vars /\ WF_vars(Loop) /\ WF_vars(ClockLive)

\* ---- the interrupt layer when seconds_passed is about to wrap ----
\* the values of seconds_passed in the last MaxLead ticks before the wrap
WrapStarts == {UINT_MODULUS - TICK_SECONDS * k : k \in 1..MaxLead}

\* the program after ticks alone since boot, none of them in ALARM_SET: only
\* line 56 has written, and millis() has run 2000 ms for each tick
InitWrap ==
  /\ seconds_passed \in WrapStarts
  /\ now = 1000 * seconds_passed
  /\ state = INITIAL_STATE
  /\ changed_state = FALSE
  /\ force_lcd_clear = FALSE
  /\ seconds_for_alarm_start = 0
  /\ number_of_minutes_selected = 0
  /\ last_yellow_button_push = 0
  /\ last_red_button_push = 0
  /\ last_blue_button_push = 0
  /\ current_direction_start = 0
  /\ direction = FALSE
  /\ pc = "top"
  /\ motor = "stop"
  /\ buzzer = FALSE
  /\ ev = Quiet("boot")
  /\ armed = [by |-> "none", at |-> 0]
  /\ net_presses = 0
  /\ ring_init = FALSE
  /\ raw = [b \in Buttons |-> {}]
  /\ preempted = "boot"
  /\ after_ring = "none"

\* ticks go on through the wrap, up to maxSec past it
TickWrap(lead, maxSec) ==
  /\ \/ seconds_passed >= UINT_MODULUS - TICK_SECONDS * lead
     \/ seconds_passed < maxSec
  /\ TIMER1_COMPA_vect

\* the start is at a whole second, and the clock is followed for span ms past it
ClockWrap(span) ==
  /\ (now % 1000) + MINIMUM_TIME_BETWEEN_BUTTON_PRESSES_MILLIS <= span
  /\ Advance(MINIMUM_TIME_BETWEEN_BUTTON_PRESSES_MILLIS)

NextWrap ==
  \/ /\ \/ TickWrap(MaxLead, MaxSecondsW)
        \/ Blue
        \/ Red
        \/ Yellow(MaxMinutesW)
     /\ UNCHANGED raw
  \/ ClockWrap(MaxNowW)

SpecWrap == InitWrap /\ [][NextWrap]_vars

\* ======================= the claims =======================
HandlerKinds == {"tick", "blue", "red", "yellow"}

\* the rows of the transition table, on the state a step starts from
TableStep ==
  \/ /\ state = INITIAL_STATE /\ state' = SETTING_ALARM
     /\ ev'.kind = "yellow" /\ ev'.accepted
  \/ /\ state = SETTING_ALARM /\ state' = ALARM_SET
     /\ ev'.kind = "blue" /\ ev'.accepted
  \/ /\ state = ALARM_SET /\ state' = ALARM_RINGING
     /\ ev'.kind = "tick" /\ seconds_passed' >= seconds_for_alarm_start
  \/ /\ state = ALARM_RINGING /\ state' = INITIAL_STATE
     /\ ev'.kind = "red" /\ ev'.accepted
  \/ /\ state = ALARM_RINGING /\ state' = ALARM_SET
     /\ ev'.kind = "yellow" /\ ev'.accepted

(* C1: the state starts as Idle and is always one of Idle, SettingAlarm,
   Armed, Ringing; every step that changes it is one of the five rows
   Idle->SettingAlarm by increase, SettingAlarm->Armed by confirm,
   Armed->Ringing by a tick that brings the seconds to the target,
   Ringing->Idle by decrease, Ringing->Armed by increase, each decided on
   the state the handler starts from. *)
C1_Transitions ==
  /\ state = INITIAL_STATE
  /\ [](state \in {INITIAL_STATE, SETTING_ALARM, ALARM_SET, ALARM_RINGING})
  /\ [][state' # state => TableStep]_vars

\* the last row of the table has been taken: the alarm rang and was stopped
C1_Witness ==
  /\ ev.kind = "red" /\ ev.accepted /\ ev.from = ALARM_RINGING
  /\ state = INITIAL_STATE

\* the step to ev' is an accepted trigger that is a row of the table
RowApplies ==
  \/ /\ ev'.kind = "yellow"
     /\ state \in {INITIAL_STATE, SETTING_ALARM, ALARM_RINGING}
  \/ /\ ev'.kind = "red"
     /\ \/ state = ALARM_RINGING
        \/ state = SETTING_ALARM /\ number_of_minutes_selected > 0
  \/ ev'.kind = "blue" /\ state = SETTING_ALARM
  \/ /\ ev'.kind = "tick" /\ state = ALARM_SET
     /\ seconds_passed' >= seconds_for_alarm_start

(* C2: an accepted trigger (increase, decrease, confirm, tick) in a state
   where it is no row of the table leaves the state, the minutes and the
   target unchanged; decrease in SettingAlarm at 0 minutes leaves them 0. *)
C2_NoOp ==
  [][(ev'.kind \in HandlerKinds /\ ev'.accepted /\ ~RowApplies)
       => UNCHANGED <<state, number_of_minutes_selected, seconds_for_alarm_start>>]_vars

\* decrease was accepted in SettingAlarm at 0 minutes
C2_Witness ==
  /\ ev.kind = "red" /\ ev.accepted /\ ev.from = SETTING_ALARM /\ ev.m = 0
  /\ state = SETTING_ALARM /\ number_of_minutes_selected = 0

(* C3: after confirm at E seconds with M >= 1 minutes (no overflow), the
   state stays Armed while the seconds are below E + 60*M, where the target
   is, and the tick that leaves Armed for Ringing is the one that brings the
   seconds to exactly E + 60*M. *)
C3_RoundTrip ==
  (armed.by = "blue" /\ number_of_minutes_selected >= 1) =>
    /\ state = ALARM_SET =>
         /\ seconds_for_alarm_start = armed.at + 60 * number_of_minutes_selected
         /\ armed.at <= seconds_passed
         /\ seconds_passed < armed.at + 60 * number_of_minutes_selected
    /\ (state = ALARM_RINGING /\ ev.kind = "tick" /\ ev.from = ALARM_SET) =>
         seconds_passed = armed.at + 60 * number_of_minutes_selected

\* an alarm of 2 minutes confirmed after some ticks has just rung
C3_Witness ==
  /\ state = ALARM_RINGING /\ ev.kind = "tick" /\ ev.from = ALARM_SET
  /\ armed.by = "blue" /\ armed.at > 0 /\ number_of_minutes_selected = 2

(* C4: an accepted increase in Ringing sets the state to Armed, sets
   changed_state, and sets the target to the seconds passed + 180, whatever
   the minutes selected and the old target. *)
C4_Snooze ==
  [][(ev'.kind = "yellow" /\ ev'.accepted /\ state = ALARM_RINGING) =>
       /\ state' = ALARM_SET
       /\ changed_state' = TRUE
       /\ seconds_for_alarm_start' = (seconds_passed + 180) % 65536]_vars

\* a ringing alarm that was not set for 3 minutes has been snoozed
C4_Witness ==
  /\ ev.kind = "yellow" /\ ev.accepted /\ ev.from = ALARM_RINGING
  /\ state = ALARM_SET /\ changed_state
  /\ seconds_for_alarm_start = seconds_passed + 180
  /\ number_of_minutes_selected # 3

(* C5 as stated: of two raw edges on the same input less than 200 ms apart,
   exactly one is accepted. *)
C5_ExactlyOne ==
  [][\A b \in Buttons : ev'.kind = b =>
       \A e \in raw[b] : now - e.t < 200 => (e.accepted # ev'.accepted)]_vars

(* C5 as amended: of two raw edges on the same input less than 200 ms apart,
   at most one is accepted. *)
C5_AtMostOne ==
  [][\A b \in Buttons : ev'.kind = b =>
       \A e \in raw[b] : now - e.t < 200 => ~(e.accepted /\ ev'.accepted)]_vars

\* an accepted edge on the red button was followed, within 200 ms, by a dropped one
C5_Witness ==
  \E e, f \in raw["red"] : e.accepted /\ ~f.accepted /\ e.t < f.t /\ f.t - e.t < 200

LastPush(b) ==
  CASE b = "blue" -> last_blue_button_push
    [] b = "red" -> last_red_button_push
    [] b = "yellow" -> last_yellow_button_push

(* C6: a raw edge on an input at time t is accepted iff t less that input's
   last accepted time is at least 200 ms; an accepted edge sets that time to
   t, whatever the state machine does with it; a dropped edge changes no
   variable of the program; the times of the other inputs never change. *)
C6_Gate ==
  [][\A b \in Buttons : ev'.kind = b =>
       /\ ev'.accepted <=> (now - LastPush(b) >= 200)
       /\ ev'.accepted => LastPush(b)' = now
       /\ ~ev'.accepted => UNCHANGED <<shared, now, pc, motor, buzzer>>
       /\ \A c \in Buttons \ {b} : LastPush(c)' = LastPush(c)]_vars

\* confirm was accepted in Idle, where the state machine ignores it
C6_Witness ==
  /\ ev.kind = "blue" /\ ev.accepted /\ ev.from = INITIAL_STATE
  /\ state = INITIAL_STATE /\ last_blue_button_push = now /\ now > 0

(* C7 as stated: while the state stays Ringing, the direction changes only
   on a pass that has seen the motion window expire, which restarts the
   window and leaves the motor and the buzzer alone. *)
C7_FlipOnlyOnWindow ==
  [][(state = ALARM_RINGING /\ state' = ALARM_RINGING /\ direction' # direction) =>
       /\ pc = "flip" /\ now - current_direction_start >= 3500
       /\ current_direction_start' = now
       /\ UNCHANGED <<motor, buzzer>>]_vars

(* C7 as amended: the direction changes only on a pass that has seen the
   motion window expire, which restarts the window, leaves the motor and the
   buzzer alone and ends, or on the pass that consumes changed_state in
   Ringing, which sets it to false and restarts the window; and once that
   pass is over the direction keeps changing, one window after the other,
   until the state leaves Ringing. *)
C7_Oscillation ==
  /\ [][direction' # direction =>
          \/ /\ pc = "flip" /\ now - current_direction_start >= 3500
             /\ current_direction_start' = now
             /\ pc' = "top"
             /\ UNCHANGED <<motor, buzzer>>
          \/ /\ pc = "entry" /\ state = ALARM_RINGING
             /\ direction' = FALSE
             /\ current_direction_start' = now]_vars
  /\ \A d \in BOOLEAN :
       (/\ state = ALARM_RINGING /\ ring_init /\ ~changed_state /\ pc # "entry"
        /\ direction = d
        /\ current_direction_start + 3500 <= MaxNowL)
         ~> (state # ALARM_RINGING \/ direction # d)

\* the direction has flipped to true and back to false in one ringing
C7_Witness ==
  /\ ev.kind = "flip" /\ direction = FALSE /\ state = ALARM_RINGING
  /\ ring_init /\ ~changed_state

(* C8: every tick adds exactly 2 to the seconds in every state; after a
   tick the state is never Armed with the seconds at or past the target:
   the tick that reaches or passes the target moves Armed to Ringing and
   sets changed_state. *)
C8_Tick ==
  [][ev'.kind = "tick" =>
       /\ seconds_passed' = (seconds_passed + 2) % 65536
       /\ ~(state' = ALARM_SET /\ seconds_passed' >= seconds_for_alarm_start')
       /\ (state = ALARM_SET /\ seconds_passed' >= seconds_for_alarm_start) =>
            (state' = ALARM_RINGING /\ changed_state' = TRUE)]_vars

\* a tick has brought the seconds to the target of an armed alarm
C8_Witness ==
  /\ ev.kind = "tick" /\ ev.from = ALARM_SET /\ state = ALARM_RINGING
  /\ changed_state /\ seconds_passed = seconds_for_alarm_start /\ seconds_passed > 0

(* C9: an accepted increase in Idle gives SettingAlarm with exactly 1
   minute; in SettingAlarm an accepted increase adds exactly 1 and an
   accepted decrease above 0 takes exactly 1, both leaving the state and
   changed_state alone; so in SettingAlarm the minutes are 1 + increases -
   decreases since the entry. *)
C9_Minutes ==
  /\ [](state = SETTING_ALARM => number_of_minutes_selected = 1 + net_presses)
  /\ [][(ev'.kind = "yellow" /\ ev'.accepted /\ state = INITIAL_STATE) =>
          (state' = SETTING_ALARM /\ number_of_minutes_selected' = 1)]_vars
  /\ [][(ev'.kind = "yellow" /\ ev'.accepted /\ state = SETTING_ALARM) =>
          /\ number_of_minutes_selected' = number_of_minutes_selected + 1
          /\ UNCHANGED <<state, changed_state>>]_vars
  /\ [][(/\ ev'.kind = "red" /\ ev'.accepted /\ state = SETTING_ALARM
         /\ number_of_minutes_selected > 0) =>
          /\ number_of_minutes_selected' = number_of_minutes_selected - 1
          /\ UNCHANGED <<state, changed_state>>]_vars

\* after the entry, a decrease at 1 and an increase at 0, a second increase
\* was accepted in SettingAlarm, with changed_state already consumed by loop()
C9_Witness ==
  /\ ev.kind = "yellow" /\ ev.accepted /\ ev.from = SETTING_ALARM /\ ev.m = 1
  /\ state = SETTING_ALARM /\ number_of_minutes_selected = 2
  /\ net_presses = 1 /\ last_red_button_push > 0 /\ ~changed_state

(* C10: in every ringing, loop() moves the motor and drives the buzzer only
   after it has consumed changed_state and set the direction and the start
   of the window for that ringing. *)
C10_InitBeforeActuation ==
  (ev.kind = "actuate" /\ state = ALARM_RINGING) => ring_init

\* the steps of the handlers and the steps of loop(), by what ev records
HandlerSteps == HandlerKinds \cup {"yellow_high"}

LoopSteps == {"top", "clear", "entry", "dispatch", "window", "flip", "actuate",
              "date1", "date2", "date", "setting"}

(* C11: every handler step that changes the state sets changed_state in the
   same invocation; no handler step writes false to it; no step of loop()
   writes true to it, and loop() clears it only at line 266, in the pass
   whose test at line 264 has just read it set. *)
C11_Handoff ==
  /\ [][ev'.kind \in HandlerSteps =>
          /\ state' # state => changed_state'
          /\ changed_state => changed_state']_vars
  /\ [][ev'.kind \in LoopSteps =>
          /\ changed_state' => changed_state
          /\ changed_state' # changed_state => (pc = "clear" /\ pc' = "entry")]_vars
  /\ [][(pc' = "clear" /\ pc # "clear") => (pc = "top" /\ changed_state)]_vars
  /\ [](pc = "clear" => changed_state)

\* loop() has just cleared the flag that the tick into Ringing had set, in
\* a pass that no handler has preempted
C11_Witness ==
  /\ ev.kind = "clear" /\ ~changed_state /\ pc = "entry"
  /\ state = ALARM_RINGING /\ ~ring_init /\ preempted = "none"

\* the last step was a handler step that changed the state
StateChanged == ev.kind \in HandlerKinds /\ ev.accepted /\ state # ev.from

(* C12: wherever loop() is when a handler changes the state, also between
   the read of changed_state at line 264 and the write of line 266, loop()
   later takes the entry action of lines 268-274, and takes it on the state
   it reads then: the initialisation of the ringing when that state is
   Ringing, the stop of the motor when it is not. *)
C12_NoLostChange ==
  /\ [](StateChanged => changed_state)
  /\ [][state' # state => (changed_state' /\ preempted' = pc)]_vars
  /\ [][ev'.kind = "entry" =>
          IF state = ALARM_RINGING
            THEN /\ direction' = FALSE /\ current_direction_start' = now
                 /\ ring_init' /\ motor' = motor
            ELSE /\ motor' = "stop"
                 /\ UNCHANGED <<direction, current_direction_start>>]_vars
  /\ StateChanged ~> (ev.kind = "entry")

\* the tick into Ringing ran between the read of line 264, which saw the
\* flag of the confirm, and the write of line 266; the entry action that
\* followed was the initialisation of the ringing
C12_Witness ==
  /\ ev.kind = "entry" /\ preempted = "clear"
  /\ state = ALARM_RINGING /\ ring_init /\ armed.by = "blue"
  /\ direction = FALSE /\ current_direction_start = now /\ pc = "top"

(* C13: when the state leaves Ringing, by decrease or by increase, wherever
   loop() is, and loop() keeps running, the motor is stopped before the
   state is Ringing again or the state is Ringing again first; once
   stopped, the motor stays stopped and no motion is commanded while the
   state has not been Ringing again; a motion commanded after the state
   left, by a pass that had tested the state before, is followed by the stop. *)
C13_StopAfterRinging ==
  /\ (after_ring \in {"left", "moved"}) ~> (after_ring \in {"stopped", "undone", "ringing"})
  /\ [](after_ring \in {"stopped", "undone"} => (motor = "stop" /\ state # ALARM_RINGING))
  /\ [][ev'.kind = "actuate" => after_ring \notin {"stopped", "undone"}]_vars
  /\ [][(ev'.kind = "actuate" /\ state # ALARM_RINGING) => changed_state]_vars

\* decrease stopped the alarm after loop() had tested the state at line 279;
\* that pass commanded a motion, and the next pass has just stopped the motor
C13_Witness ==
  /\ ev.kind = "entry" /\ after_ring = "undone" /\ motor = "stop"
  /\ state = INITIAL_STATE /\ ~changed_state

(* C14: once loop() has completed a pass from line 264 to its return with
   the state Idle, SettingAlarm or Armed throughout and no handler run
   during it, the buzzer is silent. *)
C14_SilentOutsideRinging ==
  (pc = "top" /\ preempted = "none" /\ state # ALARM_RINGING) => ~buzzer

(* C15: a pass of loop() that takes the Ringing branch at line 279 and does
   not find the motion window expired at line 282 sounds the tone and moves
   forward when direction is true, and silences the buzzer and moves
   backward when direction is false; the tone and the two motions are
   commanded by no other step, so no pass sounds the tone and moves
   backward, or silences the buzzer and moves forward. *)
C15_OutputMapping ==
  /\ [][(ev'.kind = "dispatch" /\ state = ALARM_RINGING) => pc' = "window"]_vars
  /\ [][(ev'.kind = "window" /\ now - current_direction_start < 3500) =>
          pc' = "actuate"]_vars
  /\ [][ev'.kind = "actuate" =>
          /\ direction => (buzzer' /\ motor' = "forward")
          /\ ~direction => (~buzzer' /\ motor' = "backward")
          /\ pc' = "top"]_vars
  /\ [][((buzzer' /\ ~buzzer) \/ motor' \notin {motor, "stop"}) =>
          ev'.kind = "actuate"]_vars

\* in a ringing whose direction has flipped to true, a pass that was neither
\* the one that consumed the flag nor the one that flipped has just sounded
\* the tone and moved forward
C15_Witness ==
  /\ ev.kind = "actuate" /\ direction /\ buzzer /\ motor = "forward"
  /\ state = ALARM_RINGING /\ ring_init /\ ~changed_state

\* the target that the last step into Armed computed: the seconds passed at
\* that step plus 60 for each minute selected (confirm) or plus 180 (snooze)
ArmedTarget ==
  (armed.at + (IF armed.by = "blue" THEN 60 * number_of_minutes_selected ELSE 180))
    % 65536

(* C16: no tick and no step of loop() meets a confirm or a snooze half
   done: in every state where the state is Armed the target is the one that
   the last step into Armed computed, that step has set changed_state
   together with the state and the target, and a tick that starts in Armed
   decides on that target. *)
C16_Atomic ==
  /\ [](state = ALARM_SET => seconds_for_alarm_start = ArmedTarget)
  /\ [][(state' = ALARM_SET /\ state # ALARM_SET) =>
          /\ changed_state'
          /\ ev'.kind \in {"blue", "yellow"} /\ armed'.by = ev'.kind
          /\ armed'.at = seconds_passed
          /\ seconds_for_alarm_start' = ArmedTarget']_vars
  /\ [][(ev'.kind = "tick" /\ state = ALARM_SET) =>
          /\ seconds_for_alarm_start = ArmedTarget
          /\ state' = ALARM_RINGING <=> (seconds_passed + 2) % 65536 >= ArmedTarget]_vars

\* a tick has started in Armed after a snooze and has found the target 180
\* seconds past the snooze
C16_Witness ==
  /\ ev.kind = "tick" /\ ev.from = ALARM_SET /\ state = ALARM_SET
  /\ armed.by = "yellow" /\ seconds_for_alarm_start = armed.at + 180
  /\ seconds_passed = armed.at + 2

\* the delay asked for at the last step into Armed, and the seconds that the
\* ticks have added since that step (fewer than 2^16)
ArmedDelay == IF armed.by = "blue" THEN 60 * number_of_minutes_selected ELSE 180

TickedSinceArmed == (seconds_passed + 65536 - armed.at) % 65536

(* C17: with the seconds and the target as 16-bit counters, whatever the
   seconds passed at the confirm or the snooze, a tick takes Armed to
   Ringing only when the ticks since that step have added the delay asked
   for: 60 seconds for each minute selected, or 180 seconds. *)
C17_NoEarlyRing ==
  (state = ALARM_RINGING /\ ev.kind = "tick" /\ ev.from = ALARM_SET) =>
    TickedSinceArmed >= ArmedDelay

(* C18: with a fair tick source an armed alarm rings (here: every armed
   alarm whose target the ticks of the run can reach, while a tick is still
   to come); while the state is
   Armed no button event, accepted or dropped, changes the state or the
   target; the only step that leaves Armed is the tick that brings the
   seconds to or past the target, and it leaves for Ringing. *)
C18_ArmedRings ==
  /\ (/\ state = ALARM_SET
      /\ seconds_for_alarm_start <= MaxSecondsH /\ seconds_passed < MaxSecondsH)
       ~> (state = ALARM_RINGING)
  /\ [][(state = ALARM_SET /\ ev'.kind \in Buttons \cup {"yellow_high"}) =>
          UNCHANGED <<state, seconds_for_alarm_start>>]_vars
  /\ [][state = ALARM_SET => seconds_for_alarm_start' = seconds_for_alarm_start]_vars
  /\ [][(state = ALARM_SET /\ state' # ALARM_SET) =>
          /\ ev'.kind = "tick" /\ state' = ALARM_RINGING
          /\ seconds_passed' >= seconds_for_alarm_start]_vars

\* an alarm of at least one minute has rung after decrease and increase
\* were both accepted while it was armed
C18_Witness ==
  /\ state = ALARM_RINGING /\ ev.kind = "tick" /\ ev.from = ALARM_SET
  /\ armed.by = "blue" /\ number_of_minutes_selected >= 1
  /\ last_red_button_push > last_blue_button_push
  /\ last_yellow_button_push > last_blue_button_push

====
